---- MODULE Spec2Model ----
(***************************************************************************)
(* A model of tvDatafeed/main.py: the TvDatafeed client (token cache,      *)
(* sign-in, session identifiers), the framed message encoding, the         *)
(* get_hist handshake and receive loop, and the __create_df bar parser.    *)
(*                                                                         *)
(* Text is modelled as it is in the program: a Python str is a sequence of *)
(* one-character strings, so that searching, splitting and concatenation   *)
(* are computed and not assumed.                                           *)
(***************************************************************************)
EXTENDS Integers, Sequences, FiniteSets, TLC

VARIABLES
    \* the environment
    tz,               \* the process's local time zone (datetime.fromtimestamp)
    cache,            \* the token cache file
    writable,         \* whether the cache file can be opened for writing
    \* the client object
    phase,            \* "unbuilt", "ready", or "failed" when __init__ raised
    ctor,             \* the arguments and outcome of __init__
    token,            \* self.token
    session,          \* self.session, the quote session id
    chart_session,    \* self.chart_session
    ws,               \* self.ws: the connection last opened, 0 for None
    signins,          \* sign-in requests posted
    saves,            \* times the cache file was opened for writing
    got,              \* what get_token returned last
    \* get_hist
    calls,            \* get_hist calls started
    conns,            \* the connections opened, each with the call that opened it
    pc,               \* position of the current call
    call,             \* the arguments of the current call
    symbol,           \* the formatted symbol
    sent,             \* messages the current call has sent, each with its connection
    received,         \* chunks the current call has received, each with its connection
    attempts,         \* ws.recv() calls of the current call
    recv_failed,      \* a ws.recv() of the current call raised
    raw_data,         \* the accumulator of received text
    ret,              \* what the current call returned or raised
    \* the pure functions, applied on their own
    series,           \* the stream served to __create_df
    fmt,              \* __format_symbol: arguments and results
    frame,            \* __create_message: arguments and result
    \* get_hist called from several threads at once
    threads           \* per thread: position, arguments, messages sent, chunks received

envVars == <<tz, cache, writable>>
clientVars == <<phase, ctor, token, session, chart_session, ws, signins, saves, got>>
callVars == <<calls, conns, pc, call, symbol, sent, received, attempts,
              recv_failed, raw_data, ret>>
pureVars == <<series, fmt, frame>>

vars == <<envVars, clientVars, callVars, pureVars, threads>>

None == "None"

(***************************************************************************)
(* Bounds                                                                  *)
(***************************************************************************)
MaxBars == 3        \* records in a served series block
MaxRecv == 3        \* chunks a fetch receives before the stream breaks
MaxCalls == 2       \* get_hist calls on one client
MaxSymLen == 2      \* characters of a symbol given to __format_symbol
MaxFuncLen == 2     \* characters of a message name given to __create_message
MaxParams == 2      \* parameters given to __create_message

(***************************************************************************)
(* Python str and int helpers                                              *)
(***************************************************************************)
Digit == <<"0", "1", "2", "3", "4", "5", "6", "7", "8", "9">>

DigitChars == {Digit[i] : i \in 1..10}

DigitValue(c) == (CHOOSE i \in 1..10 : Digit[i] = c) - 1

\* str(n) for an int n
RECURSIVE Str(_)
Str(n) ==
    IF n < 0 THEN <<"-">> \o Str(0 - n)
    ELSE IF n < 10 THEN <<Digit[n + 1]>>
    ELSE Str(n \div 10) \o <<Digit[(n % 10) + 1]>>

\* text[i..] starts with pat
StartsAt(text, i, pat) ==
    /\ i >= 1
    /\ i + Len(pat) - 1 <= Len(text)
    /\ SubSeq(text, i, i + Len(pat) - 1) = pat

\* Python's "sub in text"
Contains(sub, text) == \E i \in 1..(Len(text) + 1) : StartsAt(text, i, sub)

SetMin(S) == CHOOSE x \in S : \A y \in S : x <= y

\* text.split(sep): the pieces between the non-overlapping occurrences of sep,
\* found left to right
RECURSIVE Split(_, _)
Split(text, sep) ==
    LET occ == {i \in 1..Len(text) : StartsAt(text, i, sep)}
    IN  IF occ = {} THEN <<text>>
        ELSE LET i == SetMin(occ)
             IN  <<SubSeq(text, 1, i - 1)>>
                     \o Split(SubSeq(text, i + Len(sep), Len(text)), sep)

\* the concatenation of the pieces, sep between them
RECURSIVE Join(_, _)
Join(pieces, sep) ==
    IF pieces = <<>> THEN <<>>
    ELSE IF Len(pieces) = 1 THEN pieces[1]
    ELSE pieces[1] \o sep \o Join(Tail(pieces), sep)

(***************************************************************************)
(* __create_df: the bar parser (main.py 159-195)                           *)
(***************************************************************************)
NL == "\n"

SeriesOpen == <<"\"", "s", "\"", ":", "[">>        \* "s":[
SeriesClose == <<"}", "]">>                        \* }]
RecordSep == <<",", "{", "\"">>                    \* ,{"
FieldSeps == {"[", ":", ",", "]"}

\* re.search('"s":\[(.+?)\}\]', raw_data): the leftmost position where the
\* pattern matches; the group is lazy, at least one character long, and "."
\* does not match a newline.  The value carries group(1), or found = FALSE when there is no
\* match (the code then fails in .group with AttributeError).
SearchSeries(text) ==
    LET closes == {q \in 1..Len(text) : StartsAt(text, q, SeriesClose)}
        newlines == {j \in 1..Len(text) : text[j] = NL}
        EndOf(p) == {q \in closes : q >= p + Len(SeriesOpen) + 1}
        Matches(p) ==
            /\ StartsAt(text, p, SeriesOpen)
            /\ EndOf(p) # {}
            /\ \A j \in newlines :
                  ~(j >= p + Len(SeriesOpen) /\ j < SetMin(EndOf(p)))
        starts == {p \in 1..Len(text) : Matches(p)}
    IN  IF starts = {} THEN [found |-> FALSE]
        ELSE LET p == SetMin(starts)
             IN  [found |-> TRUE,
                  group |-> SubSeq(text, p + Len(SeriesOpen), SetMin(EndOf(p)) - 1)]

\* re.split("\[|:|,|\]", xi)
RECURSIVE ReSplit(_)
ReSplit(xi) ==
    LET occ == {i \in 1..Len(xi) : xi[i] \in FieldSeps}
    IN  IF occ = {} THEN <<xi>>
        ELSE LET i == SetMin(occ)
             IN  <<SubSeq(xi, 1, i - 1)>> \o ReSplit(SubSeq(xi, i + 1, Len(xi)))

\* float(tok) succeeds: over the characters of the model (digits, letters and
\* JSON punctuation) Python's float accepts exactly the non-empty digit strings
IsFloat(tok) == Len(tok) > 0 /\ \A i \in 1..Len(tok) : tok[i] \in DigitChars

RECURSIVE Float(_)
Float(tok) ==
    IF Len(tok) = 1 THEN DigitValue(tok[1])
    ELSE 10 * Float(SubSeq(tok, 1, Len(tok) - 1)) + DigitValue(tok[Len(tok)])

\* datetime.datetime.fromtimestamp(t) without a tz argument: the naive local
\* time of the process.  A zone with a fixed offset shifts every instant by
\* the same amount; a zone with daylight saving shifts the instants before
\* the autumn change by one unit more than those after it.
FallBack == 2
UtcOffset(zone, t) == IF zone = "dst" /\ t < FallBack THEN 1 ELSE 0
FromTimestamp(zone, t) == t + UtcOffset(zone, t)

\* Python's xi[i] on a list (0-based); IndexError when i is out of range
HasIndex(xi, i) == i + 1 <= Len(xi)
At(xi, i) == xi[i + 1]

\* a field loop that tries the volume of every record again
FieldStepRedetect(xi, st, i) ==
    IF st.exc # None THEN st
    ELSE IF ~HasIndex(xi, i) THEN [st EXCEPT !.exc = "IndexError"]
    ELSE IF IsFloat(At(xi, i))
         THEN [st EXCEPT !.row = Append(@, Float(At(xi, i)))]
    ELSE [st EXCEPT !.volume_data = FALSE, !.row = Append(@, 0)]

\* the body "for i in range(5, 10)" for one record: st is
\* [row, volume_data, exc], carried from field to field
FieldStep(xi, st, i) ==
    IF st.exc # None THEN st
    ELSE IF ~st.volume_data /\ i = 9
         THEN [st EXCEPT !.row = Append(@, 0)]
    ELSE IF ~HasIndex(xi, i) THEN [st EXCEPT !.exc = "IndexError"]
    ELSE IF IsFloat(At(xi, i))
         THEN [st EXCEPT !.row = Append(@, Float(At(xi, i)))]
    ELSE [st EXCEPT !.volume_data = FALSE, !.row = Append(@, 0)]

RECURSIVE FieldLoop(_, _, _)
FieldLoop(xi, st, i) ==
    IF i > 9 THEN st ELSE FieldLoop(xi, FieldStep(xi, st, i), i + 1)

\* the body "for xi in x" for one record: acc is [data, volume_data, exc]
RecordStep(zone, acc, piece) ==
    LET xi == ReSplit(piece)
    IN  IF acc.exc # None THEN acc
        ELSE IF ~HasIndex(xi, 4) THEN [acc EXCEPT !.exc = "IndexError"]
        ELSE IF ~IsFloat(At(xi, 4)) THEN [acc EXCEPT !.exc = "ValueError"]
        ELSE LET st == FieldLoop(xi,
                           [row |-> <<FromTimestamp(zone, Float(At(xi, 4)))>>,
                            volume_data |-> acc.volume_data,
                            exc |-> None], 5)
             IN  IF st.exc # None THEN [acc EXCEPT !.exc = st.exc]
                 ELSE [data |-> Append(acc.data, st.row),
                       volume_data |-> st.volume_data,
                       exc |-> None]

RECURSIVE RecordLoop(_, _, _)
RecordLoop(zone, acc, x) ==
    IF x = <<>> THEN acc
    ELSE RecordLoop(zone, RecordStep(zone, acc, Head(x)), Tail(x))

\* a row of the data frame
Bar(row) == [datetime |-> row[1], open |-> row[2], high |-> row[3],
             low |-> row[4], close |-> row[5], volume |-> row[6]]

\* a parser without the "except AttributeError" clause
CreateDfUncaught(zone, text, sym) ==
    LET out == SearchSeries(text)
    IN  IF ~out.found THEN [kind |-> "raise", exc |-> "AttributeError"]
        ELSE LET acc == RecordLoop(zone,
                            [data |-> <<>>, volume_data |-> TRUE, exc |-> None],
                            Split(out.group, RecordSep))
             IN  IF acc.exc # None THEN [kind |-> "raise", exc |-> acc.exc]
                 ELSE [kind |-> "frame", symbol |-> sym,
                       bars |-> [i \in 1..Len(acc.data) |-> Bar(acc.data[i])]]

\* __create_df(raw_data, symbol): a data frame, None after the logged
\* AttributeError, or an exception the function does not catch
CreateDf(zone, text, sym) ==
    LET out == SearchSeries(text)
    IN  IF ~out.found THEN [kind |-> "none"]
        ELSE LET acc == RecordLoop(zone,
                            [data |-> <<>>, volume_data |-> TRUE, exc |-> None],
                            Split(out.group, RecordSep))
             IN  IF acc.exc # None THEN [kind |-> "raise", exc |-> acc.exc]
                 ELSE [kind |-> "frame", symbol |-> sym,
                       bars |-> [i \in 1..Len(acc.data) |-> Bar(acc.data[i])]]

(***************************************************************************)
(* The series payload as the server writes it (the text __create_df reads) *)
(***************************************************************************)
Null == <<"n", "u", "l", "l">>

RecordKinds == {"full", "novol", "badvol", "badclose", "badts", "short"}

TsOrders == {"asc1", "asc2", "desc"}

\* the timestamp of record i of n
TsOf(order, i, n) ==
    CASE order = "asc1" -> i
      [] order = "asc2" -> i + 1
      [] order = "desc" -> n - i + 1

OpenOf(t) == t + 1
HighOf(t) == t + 3
LowOf(t) == t
CloseOf(t) == t + 2
VolumeOf(t) == t + 4

\* the values of the "v" array of a record: timestamp, open, high, low,
\* close and, when the instrument has one, volume
RecordFields(kind, t) ==
    CASE kind = "full" ->
            <<Str(t), Str(OpenOf(t)), Str(HighOf(t)), Str(LowOf(t)),
              Str(CloseOf(t)), Str(VolumeOf(t))>>
      [] kind = "novol" ->
            <<Str(t), Str(OpenOf(t)), Str(HighOf(t)), Str(LowOf(t)),
              Str(CloseOf(t))>>
      [] kind = "badvol" ->
            <<Str(t), Str(OpenOf(t)), Str(HighOf(t)), Str(LowOf(t)),
              Str(CloseOf(t)), Null>>
      [] kind = "badclose" ->
            <<Str(t), Str(OpenOf(t)), Str(HighOf(t)), Str(LowOf(t)),
              Null, Str(VolumeOf(t))>>
      [] kind = "badts" ->
            <<Null, Str(OpenOf(t)), Str(HighOf(t)), Str(LowOf(t)),
              Str(CloseOf(t)), Str(VolumeOf(t))>>
      [] kind = "short" ->
            <<Str(t), Str(OpenOf(t)), Str(HighOf(t))>>

\* {"i":<idx>,"v":[<fields>]}
RenderRecord(idx, fields) ==
    <<"{", "\"", "i", "\"", ":">> \o Str(idx)
        \o <<",", "\"", "v", "\"", ":", "[">> \o Join(fields, <<",">>)
        \o <<"]", "}">>

\* "s":[<record>,<record>,...]
SeriesBlock(order, kinds) ==
    SeriesOpen
        \o Join([i \in 1..Len(kinds) |->
                    RenderRecord(i - 1,
                        RecordFields(kinds[i], TsOf(order, i, Len(kinds))))],
                <<",">>)
        \o <<"]">>

SeriesCompleted ==
    <<"s", "e", "r", "i", "e", "s", "_", "c", "o", "m", "p", "l", "e", "t", "e", "d">>

\* the message that carries the block: {"s1":{<block>}}
DataMessage(order, kinds) ==
    <<"{", "\"", "s", "1", "\"", ":", "{">> \o SeriesBlock(order, kinds)
        \o <<"}", "}">>

\* a message without a series block (symbol_error, quote data, heartbeat)
NoDataMessage == <<"{", "\"", "m", "\"", ":", "[", "{", "}", "]", "}">>

\* the served streams of the parser specification
Served ==
    [form : {"block"}, order : TsOrders,
     kinds : UNION {[1..n -> RecordKinds] : n \in 1..MaxBars}]
    \cup [form : {"nomarker", "empty", "truncated"}, order : {"asc1"},
          kinds : {<<>>, <<"full">>}]

\* the text get_hist has accumulated from a served stream: every received
\* message is followed by a newline
StreamText(s) ==
    CASE s.form = "block" ->
            DataMessage(s.order, s.kinds) \o <<NL>> \o SeriesCompleted \o <<NL>>
      [] s.form = "nomarker" ->
            IF s.kinds = <<>> THEN NoDataMessage \o <<NL>> \o SeriesCompleted \o <<NL>>
            ELSE NoDataMessage \o <<NL>>
      [] s.form = "empty" ->
            IF s.kinds = <<>> THEN <<>> ELSE SeriesCompleted \o <<NL>>
      [] s.form = "truncated" ->
            LET m == DataMessage("asc1", <<"full", "full">>)
            IN  IF s.kinds = <<>> THEN SubSeq(m, 1, 20) \o <<NL>>
                ELSE SubSeq(m, 1, 30) \o <<NL>> \o SubSeq(m, 31, Len(m)) \o <<NL>>

(***************************************************************************)
(* __format_symbol (main.py 197-211)                                       *)
(***************************************************************************)
\* a contract argument: None, an int n, or a value of another type
NoContract == [kind |-> "none"]
IntContract(n) == [kind |-> "int", n |-> n]
OtherContract == [kind |-> "other"]

Returned(v) == [kind |-> "ok", value |-> v]
Raised(e) == [kind |-> "raise", exc |-> e]

\* ":" in symbol
HasColon(sym) == \E i \in 1..Len(sym) : sym[i] = ":"

\* a formatter that keeps a qualified symbol only when no contract is given
FormatSymbolRequalify(sym, exchange, contract) ==
    IF HasColon(sym) /\ contract.kind = "none" THEN Returned(sym)
    ELSE IF contract.kind = "none" THEN Returned(exchange \o <<":">> \o sym)
    ELSE IF contract.kind = "int"
         THEN Returned(exchange \o <<":">> \o sym \o Str(contract.n) \o <<"!">>)
    ELSE Raised("ValueError")

\* a formatter that drops the contract suffix
FormatSymbolNoContract(sym, exchange, contract) ==
    IF HasColon(sym) THEN Returned(sym)
    ELSE IF contract.kind \in {"none", "int"}
         THEN Returned(exchange \o <<":">> \o sym)
    ELSE Raised("ValueError")

FormatSymbol(sym, exchange, contract) ==
    IF HasColon(sym) THEN Returned(sym)
    ELSE IF contract.kind = "none" THEN Returned(exchange \o <<":">> \o sym)
    ELSE IF contract.kind = "int"
         THEN Returned(exchange \o <<":">> \o sym \o Str(contract.n) \o <<"!">>)
    ELSE Raised("ValueError")

(***************************************************************************)
(* Message framing (main.py 142-151)                                       *)
(*                                                                         *)
(* A character of a str is named by a one-character string when it is     *)
(* ASCII and by its code point otherwise.                                  *)
(***************************************************************************)
EAcute == "U+00E9"          \* two bytes in UTF-8
Euro == "U+20AC"            \* three bytes in UTF-8
Grin == "U+1F600"           \* four bytes in UTF-8, outside the BMP

\* the number of bytes of a character in UTF-8, the encoding of the wire
Utf8Len(c) ==
    CASE c = EAcute -> 2
      [] c = Euro -> 3
      [] c = Grin -> 4
      [] OTHER -> 1

\* json.dumps with ensure_ascii=False: non-ASCII characters are written as
\* they are
JsonCharRaw(c) ==
    CASE c = "\"" -> <<"\\", "\"">>
      [] c = "\\" -> <<"\\", "\\">>
      [] c = NL -> <<"\\", "n">>
      [] OTHER -> <<c>>

\* json.dumps writes a str with ensure_ascii=True (the default; main.py 148
\* does not change it): quote, backslash and newline are escaped, and every
\* non-ASCII character is written as \uXXXX, a surrogate pair outside the BMP
JsonChar(c) ==
    CASE c = "\"" -> <<"\\", "\"">>
      [] c = "\\" -> <<"\\", "\\">>
      [] c = NL -> <<"\\", "n">>
      [] c = EAcute -> <<"\\", "u", "0", "0", "e", "9">>
      [] c = Euro -> <<"\\", "u", "2", "0", "a", "c">>
      [] c = Grin -> <<"\\", "u", "d", "8", "3", "d", "\\", "u", "d", "e", "0", "0">>
      [] OTHER -> <<c>>

RECURSIVE JsonChars(_)
JsonChars(str) ==
    IF str = <<>> THEN <<>> ELSE JsonChar(Head(str)) \o JsonChars(Tail(str))

JsonString(str) == <<"\"">> \o JsonChars(str) \o <<"\"">>

\* the values a parameter list holds
JStr(str) == [t |-> "str", s |-> str]
JInt(n) == [t |-> "int", n |-> n]
JList(items) == [t |-> "list", items |-> items]
JDict(key, value) == [t |-> "dict", key |-> key, value |-> value]

\* json.dumps(v, separators=(",", ":")): no whitespace
RECURSIVE Dumps(_)
Dumps(v) ==
    CASE v.t = "str" -> JsonString(v.s)
      [] v.t = "int" -> Str(v.n)
      [] v.t = "list" ->
            <<"[">> \o Join([i \in 1..Len(v.items) |-> Dumps(v.items[i])], <<",">>)
                \o <<"]">>
      [] v.t = "dict" ->
            <<"{">> \o JsonString(v.key) \o <<":">> \o Dumps(v.value) \o <<"}">>

\* __construct_message: json.dumps({"m": func, "p": param_list}, ...)
ConstructMessage(func, param_list) ==
    <<"{", "\"", "m", "\"", ":">> \o JsonString(func)
        \o <<",", "\"", "p", "\"", ":">> \o Dumps(JList(param_list)) \o <<"}">>

FrameMark == <<"~", "m", "~">>

\* __prepend_header: "~m~" + str(len(st)) + "~m~" + st, where len counts
\* the characters of st
PrependHeader(st) == FrameMark \o Str(Len(st)) \o FrameMark \o st

\* __create_message
CreateMessage(func, paramList) == PrependHeader(ConstructMessage(func, paramList))

(***************************************************************************)
(* The client: __init__, the token cache and sign-in (main.py 42-108)      *)
(***************************************************************************)
\* Python truthiness of None and of a str
Truthy(v) == v # None /\ v # ""

CachedToken == "abc"
FreshToken == "tok"

\* the cache file: missing, unreadable, not JSON, JSON that is not an
\* object, an object without "token", or an object with "token"
CacheFiles ==
    {[kind |-> k, token |-> None] :
        k \in {"missing", "unreadable", "garbled", "list", "nokey"}}
    \cup {[kind |-> "object", token |-> t] : t \in {None, "", CachedToken}}

\* a load that never finds a token
LoadTokenAbsent(file) == None

\* _load_token: the value of "token", None when the file is missing or
\* reading or parsing it raises
LoadToken(file) == IF file.kind = "object" THEN file.token ELSE None

\* the answers the sign-in endpoint can give to requests.post(...).json()
SignInAnswers == {"token", "emptytoken", "nokey", "error", "timeout"}

\* a sign-in that falls back to the anonymous token when the endpoint gives
\* none
AuthAnonymous(answer) ==
    CASE answer = "token" -> FreshToken
      [] OTHER -> "unauthorized_user_token"

\* __auth with a truthy username and password: the token of the answer, None
\* when the request or the lookup raised
Auth(answer) ==
    CASE answer = "token" -> FreshToken
      [] answer = "emptytoken" -> ""
      [] OTHER -> None

\* a save that writes an object without the token
SaveTokenLost(file, canWrite, t) ==
    IF canWrite THEN [kind |-> "nokey", token |-> None] ELSE file

\* _save_token: the file after json.dump, unchanged when open raised
SaveToken(file, canWrite, t) ==
    IF canWrite THEN [kind |-> "object", token |-> t] ELSE file

\* a sign-in that accepts a username or a password alone
HasCredentialsEither(username, password) == Truthy(username) \/ Truthy(password)

\* "if username and password"
HasCredentials(username, password) == Truthy(username) /\ Truthy(password)

QuoteSessions == {"qs_a", "qs_b"}
ChartSessions == {"cs_a", "cs_b"}

Usernames == {None, "", "user"}
Passwords == {None, "", "secret"}

\* __init__(username, password), the sign-in endpoint answering with answer
\* when it is asked; ctor.answer is the answer when the sign-in was posted
Construct(username, password, answer) ==
    /\ phase = "unbuilt"
    /\ LET loaded == LoadToken(cache)
           args == [username |-> username, password |-> password,
                    cache |-> cache]
       IN  IF Truthy(loaded)
           THEN /\ token' = loaded
                /\ phase' = "ready"
                /\ ctor' = [args |-> args, answer |-> None, exc |-> None]
                /\ UNCHANGED <<signins, saves, cache>>
           ELSE IF HasCredentials(username, password)
           THEN /\ signins' = signins + 1
                /\ IF Truthy(Auth(answer))
                   THEN /\ token' = Auth(answer)
                        /\ saves' = saves + 1
                        /\ cache' = SaveToken(cache, writable, Auth(answer))
                        /\ phase' = "ready"
                        /\ ctor' = [args |-> args, answer |-> answer,
                                    exc |-> None]
                   ELSE /\ phase' = "failed"
                        /\ ctor' = [args |-> args, answer |-> answer,
                                    exc |-> "ValueError: login"]
                        /\ UNCHANGED <<token, saves, cache>>
           ELSE /\ phase' = "failed"
                /\ ctor' = [args |-> args, answer |-> None,
                            exc |-> "ValueError: config"]
                /\ UNCHANGED <<token, signins, saves, cache>>
    /\ IF phase' = "ready"
       THEN /\ ws' = 0
            /\ session' \in QuoteSessions
            /\ chart_session' \in ChartSessions
       ELSE UNCHANGED <<ws, session, chart_session>>
    /\ UNCHANGED <<got, tz, writable, callVars, pureVars, threads>>

\* get_token
GetToken ==
    /\ phase = "ready"
    /\ got' = token
    /\ UNCHANGED <<envVars, phase, ctor, token, session, chart_session, ws,
                   signins, saves, callVars, pureVars, threads>>

(***************************************************************************)
(* get_hist (main.py 213-313)                                              *)
(***************************************************************************)
\* Interval.<member>.value
IntervalValue(member) ==
    CASE member = "in_1_minute" -> "1"
      [] member = "in_1_hour" -> "1H"
      [] member = "in_daily" -> "1D"

QuoteFields ==
    <<"ch", "chp", "current_session", "description", "local_description",
      "language", "exchange", "fractional", "is_tradable", "lp", "lp_time",
      "minmov", "minmove2", "original_name", "pricescale", "pro_name",
      "short_name", "type", "update_mode", "volume", "currency_code", "rchp",
      "rtc">>

\* the third parameter of resolve_symbol
ResolveDescriptor(sym, extended_session) ==
    <<"=", "{", "\"", "s", "y", "m", "b", "o", "l", "\"", ":", "\"">>
        \o sym
        \o <<"\"", ",", "\"", "a", "d", "j", "u", "s", "t", "m", "e", "n", "t", "\"", ":", "\"", "s", "p", "l", "i", "t", "s", "\"", ",", "\"", "s", "e", "s", "s", "i", "o", "n", "\"", ":">>
        \o (IF ~extended_session
            THEN <<"\"", "r", "e", "g", "u", "l", "a", "r", "\"">>
            ELSE <<"\"", "e", "x", "t", "e", "n", "d", "e", "d", "\"">>)
        \o <<"}">>

Message(func, args) == [func |-> func, args |-> args]

\* a handshake whose quote_fast_symbols names the chart session
HandshakeMixed(i, tok, qs, cs, sym, c) ==
    CASE i = 1 -> Message("set_auth_token", <<tok>>)
      [] i = 2 -> Message("chart_create_session", <<cs, "">>)
      [] i = 3 -> Message("quote_create_session", <<qs>>)
      [] i = 4 -> Message("quote_set_fields", <<qs>> \o QuoteFields)
      [] i = 5 -> Message("quote_add_symbols",
                          <<qs, sym, [flags |-> <<"force_permission">>]>>)
      [] i = 6 -> Message("quote_fast_symbols", <<cs, sym>>)
      [] i = 7 -> Message("resolve_symbol",
                          <<cs, "symbol_1",
                            ResolveDescriptor(sym, c.extended_session)>>)
      [] i = 8 -> Message("create_series",
                          <<cs, "s1", "s1", "symbol_1",
                            IntervalValue(c.interval), c.n_bars>>)
      [] i = 9 -> Message("switch_timezone", <<cs, "exchange">>)

\* the i-th __send_message of get_hist
Handshake(i, tok, qs, cs, sym, c) ==
    CASE i = 1 -> Message("set_auth_token", <<tok>>)
      [] i = 2 -> Message("chart_create_session", <<cs, "">>)
      [] i = 3 -> Message("quote_create_session", <<qs>>)
      [] i = 4 -> Message("quote_set_fields", <<qs>> \o QuoteFields)
      [] i = 5 -> Message("quote_add_symbols",
                          <<qs, sym, [flags |-> <<"force_permission">>]>>)
      [] i = 6 -> Message("quote_fast_symbols", <<qs, sym>>)
      [] i = 7 -> Message("resolve_symbol",
                          <<cs, "symbol_1",
                            ResolveDescriptor(sym, c.extended_session)>>)
      [] i = 8 -> Message("create_series",
                          <<cs, "s1", "s1", "symbol_1",
                            IntervalValue(c.interval), c.n_bars>>)
      [] i = 9 -> Message("switch_timezone", <<cs, "exchange">>)

HandshakeLength == 9

\* the arguments of the calls
Symbols == {<<"A">>, <<"M", ":", "A">>}

CallVariants ==
    {[exchange |-> <<"N">>, fut_contract |-> NoContract,
      interval |-> "in_daily", n_bars |-> 10, extended_session |-> FALSE],
     [exchange |-> <<"M">>, fut_contract |-> IntContract(1),
      interval |-> "in_1_hour", n_bars |-> 500, extended_session |-> TRUE],
     [exchange |-> <<"N">>, fut_contract |-> OtherContract,
      interval |-> "in_1_minute", n_bars |-> 10, extended_session |-> FALSE]}

HistCalls ==
    {[symbol |-> sy, exchange |-> v.exchange, fut_contract |-> v.fut_contract,
      interval |-> v.interval, n_bars |-> v.n_bars,
      extended_session |-> v.extended_session] :
        sy \in Symbols, v \in CallVariants}

NoCall == [symbol |-> <<>>, exchange |-> <<>>, fut_contract |-> NoContract,
           interval |-> "in_daily", n_bars |-> 0, extended_session |-> FALSE]

Pending == [kind |-> "pending"]

CanCall == phase = "ready" /\ pc \in {"idle", "returned", "raised"}
                /\ calls < MaxCalls

\* get_hist called with a contract that is neither None nor an int while the
\* symbol has no exchange: __format_symbol raises before anything is opened
GetHistBadContract(c) ==
    /\ CanCall
    /\ FormatSymbol(c.symbol, c.exchange, c.fut_contract).kind = "raise"
    /\ calls' = calls + 1
    /\ call' = c
    /\ symbol' = <<>>
    /\ sent' = <<>>
    /\ received' = <<>>
    /\ attempts' = 0
    /\ recv_failed' = FALSE
    /\ raw_data' = <<>>
    /\ pc' = "raised"
    /\ ret' = Raised("ValueError")
    /\ UNCHANGED <<conns, envVars, clientVars, pureVars, threads>>

\* a fetch that opens a connection only when the client holds none
GetHistOpenPooled(c) ==
    /\ CanCall
    /\ FormatSymbol(c.symbol, c.exchange, c.fut_contract).kind = "ok"
    /\ calls' = calls + 1
    /\ call' = c
    /\ symbol' = FormatSymbol(c.symbol, c.exchange, c.fut_contract).value
    /\ sent' = <<>>
    /\ received' = <<>>
    /\ attempts' = 0
    /\ recv_failed' = FALSE
    /\ raw_data' = <<>>
    /\ IF ws = 0
       THEN /\ conns' = Append(conns, [owner |-> calls + 1])
            /\ ws' = Len(conns) + 1
       ELSE UNCHANGED <<conns, ws>>
    /\ pc' = "send"
    /\ ret' = Pending
    /\ UNCHANGED <<envVars, phase, ctor, token, session, chart_session,
                   signins, saves, got, pureVars, threads>>

\* get_hist up to __create_connection, which opens a new connection and
\* stores it in self.ws
GetHistOpen(c) ==
    /\ CanCall
    /\ FormatSymbol(c.symbol, c.exchange, c.fut_contract).kind = "ok"
    /\ calls' = calls + 1
    /\ call' = c
    /\ symbol' = FormatSymbol(c.symbol, c.exchange, c.fut_contract).value
    /\ sent' = <<>>
    /\ received' = <<>>
    /\ attempts' = 0
    /\ recv_failed' = FALSE
    /\ raw_data' = <<>>
    /\ conns' = Append(conns, [owner |-> calls + 1])
    /\ ws' = Len(conns) + 1
    /\ pc' = "send"
    /\ ret' = Pending
    /\ UNCHANGED <<envVars, phase, ctor, token, session, chart_session,
                   signins, saves, got, pureVars, threads>>

\* create_connection raises: the exception leaves get_hist, self.ws keeps
\* its value
GetHistOpenFails(c) ==
    /\ CanCall
    /\ FormatSymbol(c.symbol, c.exchange, c.fut_contract).kind = "ok"
    /\ calls' = calls + 1
    /\ call' = c
    /\ symbol' = FormatSymbol(c.symbol, c.exchange, c.fut_contract).value
    /\ sent' = <<>>
    /\ received' = <<>>
    /\ attempts' = 0
    /\ recv_failed' = FALSE
    /\ raw_data' = <<>>
    /\ pc' = "raised"
    /\ ret' = Raised("ConnectionError")
    /\ UNCHANGED <<conns, envVars, clientVars, pureVars, threads>>

\* __send_message(func, args): the message goes out on self.ws
SendMessage(m) == Append(sent, [conn |-> ws, func |-> m.func, args |-> m.args])

\* a handshake that goes on to receive without sending switch_timezone
AfterSendEarly(n) == IF n >= HandshakeLength - 1 THEN "recv" ELSE "send"

\* where the call stands after its n-th __send_message: the statement after
\* the last one starts the receive loop
AfterSend(n) == IF n = HandshakeLength THEN "recv" ELSE "send"

\* the next __send_message of the handshake; after the ninth the call
\* enters the receive loop with raw_data = ""
Send ==
    /\ pc = "send"
    /\ sent' = SendMessage(Handshake(Len(sent) + 1, token, session,
                                     chart_session, symbol, call))
    /\ pc' = AfterSend(Len(sent) + 1)
    /\ UNCHANGED <<calls, conns, call, symbol, received, attempts, recv_failed,
                   raw_data, ret, envVars, clientVars, pureVars,
                   threads>>

\* a failed send that is noted while the handshake goes on
SendFailsGoesOn ==
    /\ pc = "send"
    /\ ret' = Raised("ConnectionError")
    /\ UNCHANGED <<pc, calls, conns, call, symbol, sent, received, attempts,
                   recv_failed, raw_data, envVars, clientVars, pureVars,
                   threads>>

\* ws.send raises: the exception leaves get_hist
SendFails ==
    /\ pc = "send"
    /\ pc' = "raised"
    /\ ret' = Raised("ConnectionError")
    /\ UNCHANGED <<calls, conns, call, symbol, sent, received, attempts,
                   recv_failed, raw_data, envVars, clientVars, pureVars,
                   threads>>

\* the two halves of the marker
MarkerHead == <<"s", "e", "r", "i", "e", "s", "_">>
MarkerTail == <<"c", "o", "m", "p", "l", "e", "t", "e", "d">>

\* an accumulator without the separating newline
AccumulateNoNewline(raw, result) == raw \o result

\* raw_data = raw_data + result + "\n"
Accumulate(raw, result) == raw \o result \o <<NL>>

\* a test for the end of the stream that looks for "completed" alone
IsLastLoose(result) == Contains(MarkerTail, result)

\* "series_completed" in result
IsLast(result) == Contains(SeriesCompleted, result)

\* return self.__create_df(raw_data, symbol)
Finish(raw) ==
    LET df == CreateDf(tz, raw, symbol)
    IN  /\ ret' = df
        /\ pc' = IF df.kind = "raise" THEN "raised" ELSE "returned"

\* the messages the server can deliver in one ws.recv()
Bars2 == DataMessage("asc1", <<"full", "novol">>)

Chunks ==
    {MarkerHead, MarkerTail, Bars2, SeriesCompleted, Bars2 \o SeriesCompleted}

\* a receive that answers the chunk on the connection
RecvAnswers(result) ==
    /\ pc = "recv"
    /\ Len(received) < MaxRecv
    /\ attempts' = attempts + 1
    /\ received' = Append(received, [conn |-> ws, text |-> result])
    /\ sent' = SendMessage(Message("switch_timezone",
                                   <<chart_session, "exchange">>))
    /\ raw_data' = Accumulate(raw_data, result)
    /\ IF IsLast(result)
       THEN Finish(Accumulate(raw_data, result))
       ELSE UNCHANGED <<pc, ret>>
    /\ UNCHANGED <<calls, conns, call, symbol, recv_failed,
                   envVars, clientVars, pureVars, threads>>

\* one turn of the receive loop in which ws.recv() returns a chunk
Recv(result) ==
    /\ pc = "recv"
    /\ Len(received) < MaxRecv
    /\ attempts' = attempts + 1
    /\ received' = Append(received, [conn |-> ws, text |-> result])
    /\ raw_data' = Accumulate(raw_data, result)
    /\ IF IsLast(result)
       THEN Finish(Accumulate(raw_data, result))
       ELSE UNCHANGED <<pc, ret>>
    /\ UNCHANGED <<calls, conns, call, symbol, sent, recv_failed,
                   envVars, clientVars, pureVars, threads>>

\* one turn of the receive loop in which ws.recv() raises
RecvFails ==
    /\ pc = "recv"
    /\ attempts' = attempts + 1
    /\ recv_failed' = TRUE
    /\ Finish(raw_data)
    /\ UNCHANGED <<calls, conns, call, symbol, sent, received, raw_data,
                   envVars, clientVars, pureVars, threads>>

(***************************************************************************)
(* get_hist called from two threads on one client (main.py 213-313): the   *)
(* locals of a call are its thread's, self.ws is the client's              *)
(***************************************************************************)
Threads == {"t1", "t2"}

IdleThread ==
    [pc |-> "idle", call |-> NoCall, symbol |-> <<>>, sent |-> <<>>,
     received |-> <<>>, raw_data |-> <<>>, ret |-> Pending]

\* the arguments of the concurrent calls
ThreadCalls == {c \in HistCalls : c.fut_contract = NoContract}

\* the chunks served to the concurrent calls
ThreadChunks == {Bars2, SeriesCompleted}

\* thread t enters get_hist: __create_connection opens a new connection and
\* stores it in self.ws
ThreadGetHistOpen(t, c) ==
    /\ phase = "ready"
    /\ threads[t].pc = "idle"
    /\ FormatSymbol(c.symbol, c.exchange, c.fut_contract).kind = "ok"
    /\ conns' = Append(conns, [owner |-> t])
    /\ ws' = Len(conns) + 1
    /\ threads' = [threads EXCEPT ![t] =
          [IdleThread EXCEPT
              !.pc = "send",
              !.call = c,
              !.symbol = FormatSymbol(c.symbol, c.exchange,
                                      c.fut_contract).value]]
    /\ UNCHANGED <<calls, pc, call, symbol, sent, received, attempts,
                   recv_failed, raw_data, ret, envVars, phase, ctor, token,
                   session, chart_session, signins, saves, got, pureVars>>

\* create_connection raises in thread t
ThreadGetHistOpenFails(t, c) ==
    /\ phase = "ready"
    /\ threads[t].pc = "idle"
    /\ FormatSymbol(c.symbol, c.exchange, c.fut_contract).kind = "ok"
    /\ threads' = [threads EXCEPT ![t] =
          [IdleThread EXCEPT
              !.pc = "raised",
              !.call = c,
              !.symbol = FormatSymbol(c.symbol, c.exchange,
                                      c.fut_contract).value,
              !.ret = Raised("ConnectionError")]]
    /\ UNCHANGED <<envVars, clientVars, callVars, pureVars>>

\* the next __send_message of thread t: the message goes out on self.ws
ThreadSend(t) ==
    LET th == threads[t]
        m == Handshake(Len(th.sent) + 1, token, session, chart_session,
                       th.symbol, th.call)
    IN  /\ th.pc = "send"
        /\ threads' = [threads EXCEPT ![t] =
              [th EXCEPT
                  !.sent = Append(th.sent, [conn |-> ws, func |-> m.func,
                                            args |-> m.args]),
                  !.pc = AfterSend(Len(th.sent) + 1)]]
        /\ UNCHANGED <<envVars, clientVars, callVars, pureVars>>

\* ws.send raises in thread t
ThreadSendFails(t) ==
    /\ threads[t].pc = "send"
    /\ threads' = [threads EXCEPT ![t] =
          [threads[t] EXCEPT !.pc = "raised",
                             !.ret = Raised("ConnectionError")]]
    /\ UNCHANGED <<envVars, clientVars, callVars, pureVars>>

\* return self.__create_df(raw_data, symbol) in a thread
ThreadFinish(th, raw) ==
    LET df == CreateDf(tz, raw, th.symbol)
    IN  [th EXCEPT !.raw_data = raw,
                   !.ret = df,
                   !.pc = IF df.kind = "raise" THEN "raised" ELSE "returned"]

\* one turn of the receive loop of thread t: self.ws.recv() returns a chunk
ThreadRecv(t, result) ==
    LET th == threads[t]
        got_chunk == [th EXCEPT
                         !.received = Append(th.received,
                                             [conn |-> ws, text |-> result]),
                         !.raw_data = Accumulate(th.raw_data, result)]
    IN  /\ th.pc = "recv"
        /\ Len(th.received) < MaxRecv
        /\ threads' = [threads EXCEPT ![t] =
              IF IsLast(result)
              THEN ThreadFinish(got_chunk, got_chunk.raw_data)
              ELSE got_chunk]
        /\ UNCHANGED <<envVars, clientVars, callVars, pureVars>>

\* one turn of the receive loop of thread t: self.ws.recv() raises
ThreadRecvFails(t) ==
    /\ threads[t].pc = "recv"
    /\ threads' = [threads EXCEPT ![t] =
          ThreadFinish(threads[t], threads[t].raw_data)]
    /\ UNCHANGED <<envVars, clientVars, callVars, pureVars>>

(***************************************************************************)
(* Specifications                                                          *)
(***************************************************************************)
NoThreads == [t \in Threads |-> IdleThread]

Zones == {"fixed", "dst"}

NoFmt == [args |-> [symbol |-> <<>>, exchange |-> <<>>, contract |-> NoContract],
          out |-> Pending, again |-> Pending]
NoFrame == [func |-> <<>>, params |-> <<>>, out |-> <<>>]
NoSeries == [form |-> "empty", order |-> "asc1", kinds |-> <<>>]
NoCtor == [args |-> [username |-> None, password |-> None,
                     cache |-> [kind |-> "missing", token |-> None]],
           answer |-> None, exc |-> None]

IdleCall ==
    /\ calls = 0
    /\ conns = <<>>
    /\ pc = "idle"
    /\ call = NoCall
    /\ symbol = <<>>
    /\ sent = <<>>
    /\ received = <<>>
    /\ attempts = 0
    /\ recv_failed = FALSE
    /\ raw_data = <<>>
    /\ ret = Pending

IdlePure == series = NoSeries /\ fmt = NoFmt /\ frame = NoFrame

\* a constructed client
ReadyClient ==
    /\ phase = "ready"
    /\ ctor = NoCtor
    /\ token \in {CachedToken, FreshToken}
    /\ session \in QuoteSessions
    /\ chart_session \in ChartSessions
    /\ ws = 0
    /\ signins = 0
    /\ saves = 0
    /\ got = None

\* fetches on a constructed client, its token in the cache file
Init ==
    /\ tz \in Zones
    /\ threads = NoThreads
    /\ ReadyClient
    /\ cache = [kind |-> "object", token |-> token]
    /\ writable = TRUE
    /\ IdleCall
    /\ IdlePure

Next ==
    \/ \E c \in HistCalls : GetHistBadContract(c)
    \/ \E c \in HistCalls : GetHistOpen(c)
    \/ \E c \in HistCalls : GetHistOpenFails(c)
    \/ Send
    \/ SendFails
    \/ \E result \in Chunks : Recv(result)
    \/ RecvFails

Spec == Init /\ [][Next]_vars

\* construction of the client, get_token and the opening of a fetch
InitCtor ==
    /\ tz = "fixed"
    /\ threads = NoThreads
    /\ cache \in CacheFiles
    /\ writable \in BOOLEAN
    /\ phase = "unbuilt"
    /\ ctor = NoCtor
    /\ token = None
    /\ session = None
    /\ chart_session = None
    /\ ws = 0
    /\ signins = 0
    /\ saves = 0
    /\ got = None
    /\ IdleCall
    /\ IdlePure

NextCtor ==
    \/ \E u \in Usernames, p \in Passwords, a \in SignInAnswers : Construct(u, p, a)
    \/ GetToken
    \/ \E c \in HistCalls : GetHistBadContract(c)
    \/ \E c \in HistCalls : GetHistOpen(c)
    \/ \E c \in HistCalls : GetHistOpenFails(c)

SpecCtor == InitCtor /\ [][NextCtor]_vars

\* __create_df applied to served streams
FormattedDefault == <<"N", ":", "A">>

InitParse ==
    /\ tz \in Zones
    /\ threads = NoThreads
    /\ cache = [kind |-> "object", token |-> CachedToken]
    /\ writable = TRUE
    /\ ReadyClient
    /\ token = CachedToken
    /\ session = "qs_a"
    /\ chart_session = "cs_a"
    /\ series \in Served
    /\ fmt = NoFmt
    /\ frame = NoFrame
    /\ calls = 0
    /\ conns = <<>>
    /\ pc = "parse"
    /\ call = NoCall
    /\ symbol = FormattedDefault
    /\ sent = <<>>
    /\ received = <<>>
    /\ attempts = 0
    /\ recv_failed = FALSE
    /\ raw_data = StreamText(series)
    /\ ret = Pending

Parse ==
    /\ pc = "parse"
    /\ Finish(raw_data)
    /\ UNCHANGED <<calls, conns, call, symbol, sent, received, attempts,
                   recv_failed, raw_data, envVars, clientVars, pureVars,
                   threads>>

NextParse == Parse

SpecParse == InitParse /\ [][NextParse]_vars

\* __format_symbol applied to symbols, exchanges and contracts, and then to
\* its own result
SymChars == {"A", ":"}

FmtSymbols == UNION {[1..n -> SymChars] : n \in 0..MaxSymLen}
FmtExchanges == {<<"N">>, <<"M">>, <<"N", ":">>}
FmtContracts == {NoContract, IntContract(0), IntContract(1), IntContract(12),
                 OtherContract}

InitFmt ==
    /\ tz = "fixed"
    /\ threads = NoThreads
    /\ cache = [kind |-> "object", token |-> CachedToken]
    /\ writable = TRUE
    /\ ReadyClient
    /\ token = CachedToken
    /\ session = "qs_a"
    /\ chart_session = "cs_a"
    /\ IdleCall
    /\ series = NoSeries
    /\ frame = NoFrame
    /\ fmt \in [args : [symbol : FmtSymbols, exchange : FmtExchanges,
                        contract : FmtContracts],
                out : {Pending}, again : {Pending}]

Format ==
    /\ fmt.out = Pending
    /\ fmt' = [fmt EXCEPT !.out = FormatSymbol(fmt.args.symbol,
                                               fmt.args.exchange,
                                               fmt.args.contract)]
    /\ UNCHANGED <<envVars, clientVars, callVars, series, frame, threads>>

FormatAgain(exchange, contract) ==
    /\ fmt.out.kind = "ok"
    /\ fmt.again = Pending
    /\ fmt' = [fmt EXCEPT !.again =
                  [kind |-> "done", exchange |-> exchange,
                   contract |-> contract,
                   out |-> FormatSymbol(fmt.out.value, exchange, contract)]]
    /\ UNCHANGED <<envVars, clientVars, callVars, series, frame, threads>>

NextFmt ==
    \/ Format
    \/ \E e \in FmtExchanges, c \in FmtContracts : FormatAgain(e, c)

SpecFmt == InitFmt /\ [][NextFmt]_vars

\* __create_message applied to message names and parameter lists
FrameChars == {"a", "\"", EAcute, Grin}

FrameFuncs == UNION {[1..n -> FrameChars] : n \in 1..MaxFuncLen}
FrameValues ==
    {JStr(<<Euro>>), JStr(<<"a", "\\">>), JInt(12),
     JDict(<<"f">>, JList(<<JStr(<<EAcute>>)>>))}
FrameParams == UNION {[1..n -> FrameValues] : n \in 0..MaxParams}

InitFrame ==
    /\ tz = "fixed"
    /\ threads = NoThreads
    /\ cache = [kind |-> "object", token |-> CachedToken]
    /\ writable = TRUE
    /\ ReadyClient
    /\ token = CachedToken
    /\ session = "qs_a"
    /\ chart_session = "cs_a"
    /\ IdleCall
    /\ series = NoSeries
    /\ fmt = NoFmt
    /\ frame \in [func : FrameFuncs, params : FrameParams, out : {<<>>}]

Encode ==
    /\ frame.out = <<>>
    /\ frame' = [frame EXCEPT !.out = CreateMessage(frame.func, frame.params)]
    /\ UNCHANGED <<envVars, clientVars, callVars, series, fmt, threads>>

NextFrame == Encode

SpecFrame == InitFrame /\ [][NextFrame]_vars

\* two threads, each calling get_hist once on the same constructed client
InitConc ==
    /\ tz = "fixed"
    /\ cache = [kind |-> "object", token |-> CachedToken]
    /\ writable = TRUE
    /\ ReadyClient
    /\ token = CachedToken
    /\ session = "qs_a"
    /\ chart_session = "cs_a"
    /\ IdleCall
    /\ IdlePure
    /\ threads = NoThreads

NextConc ==
    \/ \E t \in Threads, c \in ThreadCalls : ThreadGetHistOpen(t, c)
    \/ \E t \in Threads, c \in ThreadCalls : ThreadGetHistOpenFails(t, c)
    \/ \E t \in Threads : ThreadSend(t)
    \/ \E t \in Threads : ThreadSendFails(t)
    \/ \E t \in Threads, result \in ThreadChunks : ThreadRecv(t, result)
    \/ \E t \in Threads : ThreadRecvFails(t)

SpecConc == InitConc /\ [][NextConc]_vars

(***************************************************************************)
(* Properties                                                              *)
(***************************************************************************)
HandshakeOrder ==
    <<"set_auth_token", "chart_create_session", "quote_create_session",
      "quote_set_fields", "quote_add_symbols", "quote_fast_symbols",
      "resolve_symbol", "create_series", "switch_timezone">>

\* C1: in every get_hist call the messages sent are a prefix of the nine
\* setup messages in their order (each once, none other), all of them on the
\* connection the call opened, and the call is in the receive loop, or has
\* attempted a receive, only after all nine are sent.
C1_NineSetupMessagesInOrder ==
    /\ Len(sent) <= 9
    /\ \A i \in 1..Len(sent) :
          /\ sent[i].func = HandshakeOrder[i]
          /\ sent[i].conn = ws
          /\ conns[ws].owner = calls
    /\ (pc = "recv" \/ attempts > 0) => Len(sent) = 9

C1_Witness == pc = "recv" /\ attempts = 0 /\ Len(sent) = 9

\* the chunks the call has received, one after the other
RECURSIVE Delivered(_)
Delivered(chunks) ==
    IF chunks = <<>> THEN <<>>
    ELSE Delivered(SubSeq(chunks, 1, Len(chunks) - 1)) \o chunks[Len(chunks)].text

\* a text without its line ends
Unbroken(text) == SelectSeq(text, LAMBDA c : c # NL)

\* C2: the call stays in the receive loop only while no receive has failed
\* and the accumulated text does not contain series_completed; it has left
\* the loop only if the accumulated text contains the marker or a receive
\* failed; the accumulator holds every chunk received, the one with the
\* marker included, and that text is what the parser was given; a failed
\* receive is the last receive of the call.
C2_LoopEndsOnMarkerOrFailure ==
    /\ pc = "recv" => ~recv_failed /\ ~Contains(SeriesCompleted, raw_data)
    /\ (pc \in {"returned", "raised"} /\ attempts > 0)
          => /\ Contains(SeriesCompleted, raw_data) \/ recv_failed
             /\ ret = CreateDf(tz, raw_data, symbol)
    /\ Unbroken(raw_data) = Delivered(received)
    /\ attempts = Len(received) + (IF recv_failed THEN 1 ELSE 0)
    /\ \A i \in 1..Len(received) :
          Contains(SeriesCompleted, received[i].text)
              => i = Len(received) /\ ~recv_failed

C2_Witness ==
    /\ pc = "returned"
    /\ ~recv_failed
    /\ Len(received) = 3
    /\ received[1].text = MarkerHead
    /\ received[2].text = MarkerTail
    /\ ret.kind = "frame"

HoldsToken(file) == file.kind = "object" /\ file.token \notin {None, ""}

\* C3: a client constructed without username and password from a cache that
\* holds a token is ready, its token and the value get_token returns are the
\* cached token, no sign-in request was posted, no connection was opened by
\* the construction and the cache file was neither opened for writing nor
\* changed.
C3_CachedTokenNeedsNoNetwork ==
    (/\ phase # "unbuilt"
     /\ HoldsToken(ctor.args.cache)
     /\ ctor.args.username = None
     /\ ctor.args.password = None)
        => /\ phase = "ready"
           /\ ctor.exc = None
           /\ token = ctor.args.cache.token
           /\ got \in {None, ctor.args.cache.token}
           /\ signins = 0
           /\ saves = 0
           /\ cache = ctor.args.cache
           /\ calls = 0 => conns = <<>> /\ ws = 0

C3_Witness ==
    /\ phase = "ready"
    /\ ctor.args.username = None
    /\ ctor.args.password = None
    /\ ctor.args.cache.token = CachedToken
    /\ got = CachedToken

\* C4: a client constructed when the cache holds no token and the username
\* or the password is None failed with the configuration error, and no
\* sign-in request was posted and no connection opened.
C4_NoTokenNoCredentialsFails ==
    (/\ phase # "unbuilt"
     /\ ~HoldsToken(ctor.args.cache)
     /\ (ctor.args.username = None \/ ctor.args.password = None))
        => /\ phase = "failed"
           /\ ctor.exc = "ValueError: config"
           /\ signins = 0
           /\ saves = 0
           /\ conns = <<>>
           /\ ws = 0

C4_Witness ==
    /\ phase = "failed"
    /\ ctor.exc = "ValueError: config"
    /\ ctor.args.cache.kind = "garbled"
    /\ ctor.args.username = "user"
    /\ ctor.args.password = None

\* C5: __format_symbol returns a symbol that contains ":" unchanged, whatever
\* the exchange and the contract; and formatting a result of __format_symbol
\* again, with any exchange and contract, returns that result.
C5_QualifiedSymbolUnchanged ==
    /\ (fmt.out.kind # "pending" /\ HasColon(fmt.args.symbol))
          => fmt.out = Returned(fmt.args.symbol)
    /\ fmt.again.kind # "pending" => fmt.again.out = Returned(fmt.out.value)

C5_Witness ==
    /\ fmt.again.kind = "done"
    /\ ~HasColon(fmt.args.symbol)
    /\ fmt.args.contract.kind = "int"
    /\ fmt.again.exchange # fmt.args.exchange
    /\ fmt.again.contract = OtherContract
    /\ fmt.again.out = fmt.out

\* EXCHANGE:TICKER, or EXCHANGE:TICKER<N>! for the int contract N
Qualified(c) ==
    IF c.fut_contract.kind = "none"
    THEN c.exchange \o <<":">> \o c.symbol
    ELSE c.exchange \o <<":">> \o c.symbol \o Str(c.fut_contract.n) \o <<"!">>

\* C6: in a call whose symbol has no ":" and whose contract is None or an
\* int, the formatted symbol is EXCHANGE:TICKER or EXCHANGE:TICKER<N>! (A on
\* M with contract 1 gives M:A1!), and it is the symbol of the
\* quote_add_symbols, quote_fast_symbols and resolve_symbol messages sent.
C6_FormattedSymbolIsSent ==
    (/\ calls > 0
     /\ ~HasColon(call.symbol)
     /\ call.fut_contract.kind \in {"none", "int"})
        => /\ symbol = Qualified(call)
           /\ (/\ call.symbol = <<"A">>
               /\ call.exchange = <<"M">>
               /\ call.fut_contract = IntContract(1))
                  => symbol = <<"M", ":", "A", "1", "!">>
           /\ \A i \in 1..Len(sent) :
                 /\ sent[i].func \in {"quote_add_symbols", "quote_fast_symbols"}
                       => sent[i].args[2] = Qualified(call)
                 /\ sent[i].func = "resolve_symbol"
                       => sent[i].args[3]
                            = ResolveDescriptor(Qualified(call),
                                                call.extended_session)

C6_Witness ==
    /\ pc = "recv"
    /\ call.symbol = <<"A">>
    /\ symbol = <<"M", ":", "A", "1", "!">>
    /\ sent[5].args[2] = symbol
    /\ sent[6].args[2] = symbol

\* the frame as a receiver reads it: ~m~, decimal digits, ~m~, payload
HeaderEnd(f) == SetMin({i \in 4..Len(f) : StartsAt(f, i, FrameMark)})
HeaderLength(f) == Float(SubSeq(f, 4, HeaderEnd(f) - 1))
Payload(f) == SubSeq(f, HeaderEnd(f) + 3, Len(f))

RECURSIVE Utf8Bytes(_)
Utf8Bytes(str) ==
    IF str = <<>> THEN 0 ELSE Utf8Len(Head(str)) + Utf8Bytes(Tail(str))

\* C7: the decimal length in the header of an encoded frame is the number of
\* bytes of the payload after the header, and the frame starts with ~m~.
C7_HeaderIsPayloadByteLength ==
    frame.out # <<>>
        => /\ StartsAt(frame.out, 1, FrameMark)
           /\ HeaderLength(frame.out) = Utf8Bytes(Payload(frame.out))

C7_Witness ==
    /\ frame.out # <<>>
    /\ \E i \in 1..Len(frame.func) : frame.func[i] = Grin
    /\ \E i \in 1..Len(frame.params) : frame.params[i] = JStr(<<Euro>>)
    /\ HeaderLength(frame.out) > 30

\* C8: the parse of a text without the "s":[ marker ends with the logged
\* error and no result: it neither raises nor returns a data frame.
C8_NoSeriesMarkerGivesNoResult ==
    (pc \in {"returned", "raised"} /\ ~Contains(SeriesOpen, raw_data))
        => pc = "returned" /\ ret.kind = "none"

C8_Witness ==
    /\ pc = "returned"
    /\ ret.kind = "none"
    /\ series.form = "nomarker"
    /\ ~Contains(SeriesOpen, raw_data)

\* record k is the first without a numeric volume, and the records before
\* it are complete
FirstVolumeless(k) ==
    /\ series.form = "block"
    /\ k \in 1..Len(series.kinds)
    /\ series.kinds[k] \in {"novol", "badvol"}
    /\ \A i \in 1..(k - 1) : series.kinds[i] = "full"

\* C9: when the records before record k carry a numeric volume and record k
\* does not, the bars before k have the volume of their record and bar k and
\* every later bar have volume 0.0, also a later bar whose record carries a
\* numeric volume.
C9_VolumeDetectionIsForwardOnly ==
    \A k \in 1..MaxBars + 1 :
        (ret.kind = "frame" /\ FirstVolumeless(k))
            => /\ Len(ret.bars) = Len(series.kinds)
               /\ \A i \in 1..Len(ret.bars) :
                     ret.bars[i].volume =
                         IF i < k
                         THEN VolumeOf(TsOf(series.order, i, Len(series.kinds)))
                         ELSE 0

C9_Witness ==
    /\ ret.kind = "frame"
    /\ series.kinds = <<"full", "novol", "full">>
    /\ ret.bars[1].volume = VolumeOf(TsOf(series.order, 1, 3))
    /\ ret.bars[3].volume = 0

\* the served block holds well-formed records with strictly ascending
\* timestamps
WellFormedAscending ==
    /\ series.form = "block"
    /\ series.order \in {"asc1", "asc2"}
    /\ \A i \in 1..Len(series.kinds) : series.kinds[i] \in {"full", "novol"}

\* C10: the parse of a completed stream whose block holds N well-formed
\* records with strictly ascending timestamps is a data frame of N bars,
\* strictly ascending by timestamp, bar i with the open, high, low and close
\* of record i.
C10_OneBarPerRecordAscending ==
    (pc \in {"returned", "raised"} /\ WellFormedAscending)
        => /\ ret.kind = "frame"
           /\ Len(ret.bars) = Len(series.kinds)
           /\ \A i \in 1..Len(ret.bars) :
                 LET t == TsOf(series.order, i, Len(series.kinds))
                 IN  /\ ret.bars[i].open = OpenOf(t)
                     /\ ret.bars[i].high = HighOf(t)
                     /\ ret.bars[i].low = LowOf(t)
                     /\ ret.bars[i].close = CloseOf(t)
           /\ \A i \in 1..(Len(ret.bars) - 1) :
                 ret.bars[i].datetime < ret.bars[i + 1].datetime

\* the construction found no token in the cache file and was given a
\* username and a password
SignsIn ==
    /\ phase # "unbuilt"
    /\ ~HoldsToken(ctor.args.cache)
    /\ Truthy(ctor.args.username)
    /\ Truthy(ctor.args.password)

\* C11: a construction that finds no cached token and is given credentials
\* posts exactly one sign-in; when the sign-in gives no token (request error,
\* timeout, answer without a token) the construction has failed with the
\* login error, the sign-in was not repeated, the cache file is as it was, no
\* token is held and no connection was opened.
C11_FailedSignInFailsConstruction ==
    SignsIn
        => /\ signins = 1
           /\ ctor.answer \in SignInAnswers
           /\ (ctor.answer # "token")
                 => /\ phase = "failed"
                    /\ ctor.exc = "ValueError: login"
                    /\ saves = 0
                    /\ cache = ctor.args.cache
                    /\ token = None
                    /\ ws = 0
                    /\ conns = <<>>
                    /\ calls = 0

C11_Witness ==
    /\ SignsIn
    /\ ctor.answer = "timeout"
    /\ phase = "failed"
    /\ signins = 1

\* C12: the cache file is written at most once, only by a construction whose
\* sign-in just gave a token, and with that token; when the write fails the
\* file is as it was, the construction has succeeded all the same and
\* get_token gives the fresh token.
C12_CacheWrittenOnlyAfterFreshSignIn ==
    /\ saves <= 1
    /\ phase = "unbuilt" => saves = 0
    /\ (phase # "unbuilt" /\ saves = 0) => cache = ctor.args.cache
    /\ saves = 1
          => /\ signins = 1
             /\ ctor.answer = "token"
             /\ ctor.exc = None
             /\ phase = "ready"
             /\ token = FreshToken
             /\ got \in {None, FreshToken}
             /\ cache = IF writable
                        THEN [kind |-> "object", token |-> FreshToken]
                        ELSE ctor.args.cache

C12_Witness ==
    /\ saves = 1
    /\ ~writable
    /\ cache = ctor.args.cache
    /\ phase = "ready"
    /\ got = FreshToken

ChartMessages ==
    {"chart_create_session", "resolve_symbol", "create_series",
     "switch_timezone"}
QuoteMessages ==
    {"quote_create_session", "quote_set_fields", "quote_add_symbols",
     "quote_fast_symbols"}

\* the messages sent carry the client's token and session ids
CarriesClientIds ==
    \A i \in 1..Len(sent) :
        /\ sent[i].func = "set_auth_token" => sent[i].args[1] = token
        /\ sent[i].func \in ChartMessages => sent[i].args[1] = chart_session
        /\ sent[i].func \in QuoteMessages => sent[i].args[1] = session

\* C14: over any sequence of get_hist calls no step changes the token, the
\* quote session id or the chart session id of the client, and every message
\* sent carries them: set_auth_token the token, the chart messages the chart
\* session id, the quote_* messages the quote session id.
C14_TokenAndSessionsFixed ==
    /\ []CarriesClientIds
    /\ [][/\ token' = token
          /\ session' = session
          /\ chart_session' = chart_session]_vars

C14_Witness == calls = 2 /\ Len(sent) = HandshakeLength /\ pc = "recv"

\* the connections opened by call k
OpenedBy(k) == {n \in 1..Len(conns) : conns[n].owner = k}

\* C15: in a sequence of calls every connection was opened by one call, no
\* call opened two, a call that sends or receives has opened exactly one,
\* the newest, and everything it sent or received went over that one, never
\* over a connection of an earlier call.
C15_OneNewConnectionPerCall ==
    /\ \A n \in 1..Len(conns) : conns[n].owner \in 1..calls
    /\ \A k \in 1..calls : Cardinality(OpenedBy(k)) <= 1
    /\ (pc \in {"send", "recv"} \/ sent # <<>> \/ received # <<>>)
          => /\ OpenedBy(calls) = {ws}
             /\ ws = Len(conns)
    /\ \A i \in 1..Len(sent) : sent[i].conn \in OpenedBy(calls)
    /\ \A i \in 1..Len(received) : received[i].conn \in OpenedBy(calls)

C15_Witness ==
    /\ calls = 2
    /\ OpenedBy(1) = {1}
    /\ OpenedBy(2) = {2}
    /\ Len(sent) = HandshakeLength
    /\ received # <<>>

\* the step leaves the receive loop
LeavesLoop == pc = "recv" /\ pc' # "recv"

\* the step received a chunk that holds the marker
MarkerArrives ==
    /\ Len(received') = Len(received) + 1
    /\ Contains(SeriesCompleted, received'[Len(received')].text)

\* C16: a call in the receive loop leaves it, and ends, in the very step in
\* which a chunk with series_completed arrives or a receive fails, and in no
\* other step: a chunk without the marker leaves the call in the loop.
C16_LoopEndsExactlyOnMarkerOrFailure ==
    [][pc = "recv"
          => /\ LeavesLoop <=> (MarkerArrives \/ recv_failed')
             /\ LeavesLoop => pc' \in {"returned", "raised"}]_vars

C16_Witness ==
    /\ pc = "recv"
    /\ Len(received) = MaxRecv
    /\ \A i \in 1..Len(received) : ~Contains(SeriesCompleted, received[i].text)

ConnectionFailed == ret = Raised("ConnectionError")

\* C17: when opening the connection or one of the nine sends has failed the
\* call has ended with the connection error: fewer than nine messages were
\* sent (none when the opening failed), no receive was attempted, nothing was
\* accumulated or parsed, and until the next call nothing more is sent,
\* opened or received.
C17_ConnectionErrorEndsTheCall ==
    /\ [](ConnectionFailed
            => /\ pc = "raised"
               /\ Len(sent) < HandshakeLength
               /\ OpenedBy(calls) = {} => sent = <<>>
               /\ attempts = 0
               /\ received = <<>>
               /\ raw_data = <<>>)
    /\ [][(ConnectionFailed /\ calls' = calls)
             => UNCHANGED <<sent, conns, ws, attempts, received, raw_data,
                            ret, pc>>]_vars

C17_Witness ==
    /\ ConnectionFailed
    /\ pc = "raised"
    /\ Len(sent) = 4
    /\ OpenedBy(calls) = {ws}

\* C20: a receive is attempted only after switch_timezone, the ninth
\* message, is sent; a step that attempts a receive sends nothing, and after
\* the first attempt the call sends nothing; within a call the messages sent
\* only grow, and none is sent twice.
C20_SendThenReceive ==
    /\ [](/\ attempts > 0
             => /\ Len(sent) = HandshakeLength
                /\ sent[Len(sent)].func = "switch_timezone"
          /\ \A i, j \in 1..Len(sent) : sent[i].func = sent[j].func => i = j)
    /\ [][calls' = calls
             => /\ Len(sent') >= Len(sent)
                /\ SubSeq(sent', 1, Len(sent)) = sent
                /\ (attempts' > attempts \/ attempts > 0) => sent' = sent]_vars

C20_Witness == attempts = 2 /\ pc = "recv" /\ Len(sent) = HandshakeLength

\* record i of the served block carries a numeric volume at index 9
NumericVolume(i) == series.kinds[i] \in {"full", "badclose"}

\* C18: a bar whose record carries a numeric volume has volume 0.0 only if
\* the field at index 9 of that record or of an earlier record failed to
\* parse; a non-numeric open, high, low or close does not turn the volume of
\* its bar or of a later bar into 0.0.
C18_VolumelessOnlyOnVolumeFailure ==
    (ret.kind = "frame" /\ series.form = "block")
        => \A i \in 1..Len(ret.bars) :
              (NumericVolume(i) /\ ret.bars[i].volume = 0)
                  => \E j \in 1..i : ~NumericVolume(j)

\* C19: whatever text the parser is handed, the call comes back with a bar
\* sequence or with no result; the parser raises nothing to the caller.
C19_ParserNeverRaises ==
    pc \in {"returned", "raised"}
        => /\ pc = "returned"
           /\ ret.kind \in {"frame", "none"}

\* C13: when two threads call get_hist on one client at once, every message
\* a call sends and every chunk it receives goes over the connection that
\* call opened, so that no connection carries the messages of, or is read
\* by, two calls.
C13_ConcurrentCallsKeepTheirConnections ==
    \A t \in Threads :
        /\ \A i \in 1..Len(threads[t].sent) :
              conns[threads[t].sent[i].conn].owner = t
        /\ \A i \in 1..Len(threads[t].received) :
              conns[threads[t].received[i].conn].owner = t

====
